---- MODULE Spec2Model ----
(***************************************************************************)
(* A model of musicbrainzngs/wrapper.py: the class MusicBrainzWS, its      *)
(* configuration setters and its lookup, search, browse and mutation       *)
(* methods.  The functions the class imports from musicbrainzngs.musicbrainz*)
(* (_mb_request, _do_mb_query, _do_mb_search, _rate_limit, the validators  *)
(* and their tables) are modelled from the specification's component        *)
(* contracts (parameter validator, request builder, rate limiter,          *)
(* transport).                                                             *)
(***************************************************************************)
EXTENDS Integers, Sequences, FiniteSets, TLC

VARIABLES
    ws,        \* the attributes of each MusicBrainzWS instance (wrapper.py lines 13-24)
    module,    \* the module-wide configuration of musicbrainzngs.musicbrainz
    now,       \* the clock
    gate,      \* per instance, the start times the rate limiter remembers
    requests,  \* the requests that reached the network, in order
    last       \* the most recent call of a method and its outcome

vars == <<ws, module, now, gate, requests, last>>

(* ------------------------------------------------------------------ *)
(* Bounds                                                             *)
(* ------------------------------------------------------------------ *)
MaxRequests == 2
MaxTime == 2

(* ------------------------------------------------------------------ *)
(* Python values                                                      *)
(* ------------------------------------------------------------------ *)
\* An optional argument is None or a value: <<>> is None, <<v>> is the value v.
None == <<>>

Some(v) == <<v>>

\* bool(x) of a str-or-None argument: None and "" are falsy.
TruthyStr(x) == x /= None /\ x[1] /= ""

\* bool(x) of an int-or-None argument: None and 0 are falsy.
TruthyInt(x) == x /= None /\ x[1] /= 0

\* A limit_or_interval argument is a bool or a number.
Bool(b) == [kind |-> "bool", b |-> b, n |-> 0]

Num(n) == [kind |-> "num", b |-> FALSE, n |-> n]

(* ------------------------------------------------------------------ *)
(* The instances and the inputs of the operations                     *)
(* ------------------------------------------------------------------ *)
Instances == {"A", "B"}

Users == {"u1"}
Passwords == {"p1"}
Hostnames == {"test.host"}
Apps == {None, Some(""), Some("app")}
Versions == {Some(""), Some("1")}
Contacts == {None, Some("me")}
LimitArgs == {Bool(FALSE), Bool(TRUE), Num(-1), Num(0), Num(2)}
RequestArgs == {0, 2}

\* The largest request quota an instance can hold.
MaxQuota == CHOOSE m \in RequestArgs \cup {1} : \A x \in RequestArgs \cup {1} : x <= m

\* musicbrainz._version (imported, wrapper.py line 7)
mb_version == "0.3"

\* The class attributes: the state of an instance after construction.
ClassDefaults ==
    [user |-> "", password |-> "",
     hostname |-> "musicbrainz.org",
     client |-> "", useragent |-> "",
     limit_interval |-> 1, limit_requests |-> 1, do_rate_limit |-> TRUE]

\* The record of the most recent call: the operation, the instance it was
\* called on, how it returned, how many requests it sent, and its arguments.
NoArg == [none |-> TRUE]

NoReq == [none |-> TRUE]

CallReq(op, self, result, sent, arg, req) ==
    [op |-> op, self |-> self, result |-> result, sent |-> sent, arg |-> arg, req |-> req]

Call(op, self, result, sent, arg) == CallReq(op, self, result, sent, arg, NoReq)

(* ------------------------------------------------------------------ *)
(* Configuration setters                                              *)
(* ------------------------------------------------------------------ *)
\* auth(self, u, p)
auth(self, u, p) ==
    /\ ws' = [ws EXCEPT ![self].user = u, ![self].password = p]
    /\ last' = Call("auth", self, "ok", 0, [u |-> u, p |-> p])
    /\ UNCHANGED <<module, now, gate, requests>>

\* The "%s/%s python-musicbrainz-ngs/%s" formats of set_useragent.
format_useragent(app, version, contact) ==
    IF contact /= None
    THEN app[1] \o "/" \o version[1] \o " python-musicbrainz-ngs/" \o mb_version
            \o " ( " \o contact[1] \o " )"
    ELSE app[1] \o "/" \o version[1] \o " python-musicbrainz-ngs/" \o mb_version

format_client(app, version) == app[1] \o "-" \o version[1]

\* Mutant: the user-agent is stored before the arguments are checked.
set_useragent_unchecked(self, app, version, contact) ==
    /\ ws' = [ws EXCEPT ![self].useragent = "/ python-musicbrainz-ngs/" \o mb_version]
    /\ last' = Call("set_useragent", self,
                    IF ~TruthyStr(app) \/ ~TruthyStr(version) THEN "ValueError" ELSE "ok",
                    0, [app |-> app, version |-> version, contact |-> contact])
    /\ UNCHANGED <<module, now, gate, requests>>

\* set_useragent(self, app, version, contact=None)
set_useragent(self, app, version, contact) ==
    /\ IF ~TruthyStr(app) \/ ~TruthyStr(version)
       THEN /\ ws' = ws
            /\ last' = Call("set_useragent", self, "ValueError", 0,
                            [app |-> app, version |-> version, contact |-> contact])
       ELSE /\ ws' = [ws EXCEPT ![self].useragent = format_useragent(app, version, contact),
                                ![self].client = format_client(app, version)]
            /\ last' = Call("set_useragent", self, "ok", 0,
                            [app |-> app, version |-> version, contact |-> contact])
    /\ UNCHANGED <<module, now, gate, requests>>

\* Mutant: the hostname is stored on the class, so every instance sees it.
set_hostname_shared(self, new_hostname) ==
    /\ ws' = [i \in Instances |-> [ws[i] EXCEPT !.hostname = new_hostname]]
    /\ last' = Call("set_hostname", self, "ok", 0, [new_hostname |-> new_hostname])
    /\ UNCHANGED <<module, now, gate, requests>>

\* set_hostname(self, new_hostname)
set_hostname(self, new_hostname) ==
    /\ ws' = [ws EXCEPT ![self].hostname = new_hostname]
    /\ last' = Call("set_hostname", self, "ok", 0, [new_hostname |-> new_hostname])
    /\ UNCHANGED <<module, now, gate, requests>>

\* Mutant: the interval is stored before the quota is checked.
set_rate_limit_partial(self, limit_or_interval, new_requests) ==
    /\ IF limit_or_interval.kind = "bool"
       THEN /\ ws' = ws
            /\ last' = Call("set_rate_limit", self, "ok", 0,
                            [limit_or_interval |-> limit_or_interval,
                             new_requests |-> new_requests])
       ELSE IF limit_or_interval.n <= 0
       THEN /\ ws' = ws
            /\ last' = Call("set_rate_limit", self, "ValueError", 0,
                            [limit_or_interval |-> limit_or_interval,
                             new_requests |-> new_requests])
       ELSE IF new_requests <= 0
       THEN /\ ws' = [ws EXCEPT ![self].do_rate_limit = TRUE,
                                ![self].limit_interval = limit_or_interval.n]
            /\ last' = Call("set_rate_limit", self, "ValueError", 0,
                            [limit_or_interval |-> limit_or_interval,
                             new_requests |-> new_requests])
       ELSE /\ ws' = [ws EXCEPT ![self].do_rate_limit = TRUE,
                                ![self].limit_interval = limit_or_interval.n,
                                ![self].limit_requests = new_requests]
            /\ last' = Call("set_rate_limit", self, "ok", 0,
                            [limit_or_interval |-> limit_or_interval,
                             new_requests |-> new_requests])
    /\ UNCHANGED <<module, now, gate, requests>>

\* set_rate_limit(self, limit_or_interval=1.0, new_requests=1).  A bool
\* argument is assigned to the local name do_rate_limit, not to
\* self.do_rate_limit: the instance is left as it was.
set_rate_limit(self, limit_or_interval, new_requests) ==
    /\ IF limit_or_interval.kind = "bool"
       THEN /\ ws' = ws
            /\ last' = Call("set_rate_limit", self, "ok", 0,
                            [limit_or_interval |-> limit_or_interval,
                             new_requests |-> new_requests])
       ELSE IF limit_or_interval.n <= 0
       THEN /\ ws' = ws
            /\ last' = Call("set_rate_limit", self, "ValueError", 0,
                            [limit_or_interval |-> limit_or_interval,
                             new_requests |-> new_requests])
       ELSE IF new_requests <= 0
       THEN /\ ws' = ws
            /\ last' = Call("set_rate_limit", self, "ValueError", 0,
                            [limit_or_interval |-> limit_or_interval,
                             new_requests |-> new_requests])
       ELSE /\ ws' = [ws EXCEPT ![self].do_rate_limit = TRUE,
                                ![self].limit_interval = limit_or_interval.n,
                                ![self].limit_requests = new_requests]
            /\ last' = Call("set_rate_limit", self, "ok", 0,
                            [limit_or_interval |-> limit_or_interval,
                             new_requests |-> new_requests])
    /\ UNCHANGED <<module, now, gate, requests>>

(* ------------------------------------------------------------------ *)
(* musicbrainzngs.musicbrainz: tables and validators                  *)
(* ------------------------------------------------------------------ *)
\* VALID_INCLUDES: the include options of each entity.
VALID_INCLUDES(entity) ==
    CASE entity = "artist" -> {"recordings", "releases"}
      [] entity = "label" -> {"releases"}
      [] entity = "recording" -> {"artists", "releases"}
      [] entity = "release" -> {"artists", "labels", "recordings"}
      [] entity = "release-group" -> {"artists", "releases"}
      [] entity = "work" -> {"artists"}
      [] entity = "url" -> {"artists"}
      [] OTHER -> {}

\* VALID_BROWSE_INCLUDES: a subset of the lookup includes of the entity.
VALID_BROWSE_INCLUDES(key) ==
    CASE key = "artists" -> {"releases"}
      [] key = "labels" -> {"releases"}
      [] key = "recordings" -> {"artists"}
      [] key = "releases" -> {"artists", "labels"}
      [] key = "release-groups" -> {"artists"}
      [] key = "urls" -> {"artists"}
      [] OTHER -> {}

VALID_RELEASE_TYPES == {"album", "single"}

VALID_RELEASE_STATUSES == {"official", "bootleg"}

\* The filter dimensions an entity supports.
FILTER_DIMENSIONS(entity) ==
    CASE entity \in {"artist", "label", "recording", "release"} -> {"status", "type"}
      [] entity = "release-group" -> {"type"}
      [] OTHER -> {}

Range(seq) == {seq[k] : k \in DOMAIN seq}

\* ",".join(seq)
RECURSIVE Join(_)
Join(seq) ==
    IF seq = <<>> THEN ""
    ELSE IF Len(seq) = 1 THEN seq[1]
    ELSE seq[1] \o "," \o Join(Tail(seq))

\* dict.update: the entries of q replace and extend those of p.
Update(p, q) ==
    [k \in DOMAIN p \cup DOMAIN q |-> IF k \in DOMAIN q THEN q[k] ELSE p[k]]

EmptyDict == <<>>

\* _check_includes_impl(includes, valid_includes): every requested include
\* is in the whitelist.
check_includes_impl(includes, valid_includes) == Range(includes) \subseteq valid_includes

\* _check_filter_and_make_params(entity, includes, release_status, release_type):
\* [ok, params].  Fails for a filter on an entity that does not support the
\* dimension and for an unknown status or type value.
check_filter_and_make_params(entity, includes, release_status, release_type) ==
    LET okStatus == release_status = <<>>
                    \/ ("status" \in FILTER_DIMENSIONS(entity)
                        /\ Range(release_status) \subseteq VALID_RELEASE_STATUSES)
        okType == release_type = <<>>
                  \/ ("type" \in FILTER_DIMENSIONS(entity)
                      /\ Range(release_type) \subseteq VALID_RELEASE_TYPES)
        ps == IF release_status /= <<>>
              THEN [k \in {"status"} |-> Join(release_status)] ELSE EmptyDict
        pt == IF release_type /= <<>>
              THEN [k \in {"type"} |-> Join(release_type)] ELSE EmptyDict
    IN  [ok |-> okStatus /\ okType, params |-> Update(ps, pt)]

(* ------------------------------------------------------------------ *)
(* musicbrainzngs.musicbrainz: request builder and transport          *)
(* ------------------------------------------------------------------ *)
\* The module-wide hostname, used when a caller passes none.
module_hostname == "musicbrainz.org"

Responses == {"ok", "ResponseError"}

\* What a call did before it returned: an error raised without a request
\* (sent = 0), or one request handed to the network (sent = 1).
Raised(error) == [result |-> error, sent |-> 0, req |-> NoReq]

Sent(req) == [result |-> "sent", sent |-> 1, req |-> req]

\* musicbrainz._mb_request(path, method, auth_required, client_required, args,
\* data, body, client, hostname, useragent): the transport.  The identifying
\* header is required on every request, the client name on requests that
\* require it, and the module-wide credentials on requests that require
\* authentication.
mb_request(path, method, auth_required, client_required, args, body, client, hostname, useragent) ==
    IF useragent = "" THEN Raised("ConfigurationError")
    ELSE IF client_required /\ client = "" THEN Raised("ConfigurationError")
    ELSE IF auth_required /\ module.user = "" THEN Raised("ConfigurationError")
    ELSE Sent([method |-> method, hostname |-> hostname, path |-> path, args |-> args,
               body |-> body, client |-> client, useragent |-> useragent,
               auth_required |-> auth_required,
               user |-> IF auth_required THEN module.user ELSE "",
               password |-> IF auth_required THEN module.password ELSE ""])

\* musicbrainz._do_mb_query(entity, id, includes, params, client): checks the
\* includes of the entity, builds the path and the query and sends a GET to
\* the module-wide hostname under the module-wide user-agent.
do_mb_query(entity, id, includes, params, client) ==
    IF ~check_includes_impl(includes, VALID_INCLUDES(entity))
    THEN Raised("ValidationError")
    ELSE mb_request("/ws/2/" \o entity \o "/" \o id, "GET", FALSE, FALSE,
                    IF includes = <<>> THEN params
                    ELSE Update(params, [k \in {"inc"} |-> Join(includes)]),
                    None, client, module_hostname, module.useragent)

\* The field clauses of a search: key:value for every non-empty value,
\* all required in strict mode.
RECURSIVE search_clauses(_, _)
search_clauses(fields, strict) ==
    IF fields = <<>> THEN ""
    ELSE LET f == fields[1]
             rest == search_clauses(Tail(fields), strict)
             clause == f[1] \o ":" \o f[2]
         IN  IF f[2] = "" THEN rest
             ELSE IF rest = "" THEN clause
             ELSE clause \o (IF strict THEN " AND " ELSE " ") \o rest

\* musicbrainz._do_mb_search(entity, query, fields, limit, offset, strict,
\* client, hostname, useragent)
do_mb_search(entity, query, fields, limit, offset, strict, client, hostname, useragent) ==
    LET clauses == search_clauses(fields, strict)
        q == IF query = "" THEN clauses
             ELSE IF clauses = "" THEN query
             ELSE query \o (IF strict THEN " AND " ELSE " ") \o clauses
        a0 == [k \in {"query"} |-> q]
        a1 == IF limit /= None THEN Update(a0, [k \in {"limit"} |-> limit[1]]) ELSE a0
        a2 == IF offset /= None THEN Update(a1, [k \in {"offset"} |-> offset[1]]) ELSE a1
    IN  mb_request("/ws/2/" \o entity \o "/", "GET", FALSE, FALSE, a2, None,
                   client, hostname, useragent)

(* ------------------------------------------------------------------ *)
(* musicbrainzngs.musicbrainz: the rate limiter                       *)
(* ------------------------------------------------------------------ *)
\* The gated calls of an instance that started in the window (t - T, t].
InWindow(self, t) ==
    {k \in DOMAIN gate[self] : gate[self][k] > t - ws[self].limit_interval}

\* The time at which the gate lets the next call of the instance through:
\* now, or the first time at which the window holds fewer than the quota.
GateStart(self) ==
    IF ~ws[self].do_rate_limit THEN now
    ELSE CHOOSE t \in now..(now + ws[self].limit_interval) :
            /\ Cardinality(InWindow(self, t)) < ws[self].limit_requests
            /\ \A u \in now..(t - 1) :
                  Cardinality(InWindow(self, u)) >= ws[self].limit_requests

\* The rate-limit state after the call: the start times still of interest.
GateAfter(self, t) ==
    LET all == Append(gate[self], t)
    IN  IF ~ws[self].do_rate_limit THEN gate[self]
        ELSE IF Len(all) > MaxQuota THEN Tail(all) ELSE all

\* _rate_limit: the decorator of MusicBrainzWS._mb_request.  The call waits
\* until GateStart and is then let through.
rate_limit(self) ==
    /\ GateStart(self) <= MaxTime
    /\ now' = GateStart(self)
    /\ gate' = [gate EXCEPT ![self] = GateAfter(self, GateStart(self))]

(* ------------------------------------------------------------------ *)
(* MusicBrainzWS: requests                                            *)
(* ------------------------------------------------------------------ *)
\* The entry of the request log: who sent it, when it started, whether it
\* passed the instance's gate, and the instance's rate-limit settings then.
LogEntry(self, start, gated) ==
    [self |-> self, start |-> start, gated |-> gated,
     limit_interval |-> ws[self].limit_interval,
     limit_requests |-> ws[self].limit_requests,
     do_rate_limit |-> ws[self].do_rate_limit]

\* The call returns: its request, if it sent one, is logged; the caller gets
\* the answer to it, or the error the call raised.
Return(op, self, arg, out, gated, start, resp) ==
    /\ Len(requests) < MaxRequests
    /\ requests' = IF out.sent = 1
                   THEN Append(requests, LogEntry(self, start, gated))
                   ELSE requests
    /\ last' = CallReq(op, self, IF out.result = "sent" THEN resp ELSE out.result,
                       out.sent, arg, out.req)
    /\ UNCHANGED <<ws, module>>

\* MusicBrainzWS._mb_request(self, path, method, auth_required, client_required,
\* body), decorated with _rate_limit: the gate, then the transport with the
\* instance's client, hostname and user-agent.
self_mb_request(self, path, method, auth_required, client_required, body) ==
    mb_request(path, method, auth_required, client_required, EmptyDict, body,
               ws[self].client, ws[self].hostname, ws[self].useragent)

\* MusicBrainzWS._do_mb_query(self, entity, id, includes, params): passes the
\* instance's client and nothing else of the instance.
self_do_mb_query(self, entity, id, includes, params) ==
    do_mb_query(entity, id, includes, params, ws[self].client)

\* MusicBrainzWS._do_mb_search(self, entity, query, fields, limit, offset, strict)
self_do_mb_search(self, entity, query, fields, limit, offset, strict) ==
    do_mb_search(entity, query, fields, limit, offset, strict,
                 ws[self].client, ws[self].hostname, ws[self].useragent)

(* ------------------------------------------------------------------ *)
(* MusicBrainzWS: mutation passthroughs                               *)
(* ------------------------------------------------------------------ *)
\* _do_mb_delete(self, path)
_do_mb_delete(self, path) ==
    /\ rate_limit(self)
    /\ \E resp \in Responses :
          Return("_do_mb_delete", self, [path |-> path],
                 self_mb_request(self, path, "DELETE", TRUE, TRUE, None),
                 TRUE, GateStart(self), resp)

\* _do_mb_put(self, path)
_do_mb_put(self, path) ==
    /\ rate_limit(self)
    /\ \E resp \in Responses :
          Return("_do_mb_put", self, [path |-> path],
                 self_mb_request(self, path, "PUT", TRUE, TRUE, None),
                 TRUE, GateStart(self), resp)

\* What instance._do_mb_post(*args) does.  The method is declared
\* _do_mb_post(path, body), without self: the instance is bound to path, so
\* two arguments are one too many, and with one argument the instance is the
\* path and the argument the body.  The call goes to musicbrainz._mb_request
\* directly, with the module-wide client, hostname and user-agent.
do_mb_post_outcome(self, args) ==
    IF Len(args) /= 1 THEN Raised("TypeError")
    ELSE mb_request(self, "POST", TRUE, TRUE, EmptyDict, Some(args[1]),
                    module.client, module_hostname, module.useragent)

\* _do_mb_post(path, body), called on an instance
_do_mb_post(self, args) ==
    /\ \E resp \in Responses :
          Return("_do_mb_post", self, [args |-> args],
                 do_mb_post_outcome(self, args), FALSE, now, resp)
    /\ UNCHANGED <<now, gate>>

(* ------------------------------------------------------------------ *)
(* MusicBrainzWS: lookups                                             *)
(* ------------------------------------------------------------------ *)
\* The body shared by get_artist_by_id, get_label_by_id, get_release_by_id
\* and get_release_group_by_id: the filter check, then self._do_mb_query.
lookup_outcome(self, entity, id, includes, release_status, release_type) ==
    LET f == check_filter_and_make_params(entity, includes, release_status, release_type)
    IN  IF ~f.ok THEN Raised("ValidationError")
        ELSE self_do_mb_query(self, entity, id, includes, f.params)

\* get_recording_by_id: the filter check, then musicbrainz._do_mb_query
\* without the instance's client.
recording_outcome(self, id, includes, release_status, release_type) ==
    LET f == check_filter_and_make_params("recording", includes, release_status, release_type)
    IN  IF ~f.ok THEN Raised("ValidationError")
        ELSE do_mb_query("recording", id, includes, f.params, module.client)

Lookup(op, self, id, out) ==
    /\ \E resp \in Responses : Return(op, self, [id |-> id], out, FALSE, now, resp)
    /\ UNCHANGED <<now, gate>>

get_artist_by_id(self, id, includes, release_status, release_type) ==
    Lookup("get_artist_by_id", self, id,
           lookup_outcome(self, "artist", id, includes, release_status, release_type))

get_label_by_id(self, id, includes, release_status, release_type) ==
    Lookup("get_label_by_id", self, id,
           lookup_outcome(self, "label", id, includes, release_status, release_type))

get_recording_by_id(self, id, includes, release_status, release_type) ==
    Lookup("get_recording_by_id", self, id,
           recording_outcome(self, id, includes, release_status, release_type))

get_release_by_id(self, id, includes, release_status, release_type) ==
    Lookup("get_release_by_id", self, id,
           lookup_outcome(self, "release", id, includes, release_status, release_type))

get_release_group_by_id(self, id, includes, release_status, release_type) ==
    Lookup("get_release_group_by_id", self, id,
           lookup_outcome(self, "release-group", id, includes, release_status, release_type))

get_work_by_id(self, id, includes) ==
    Lookup("get_work_by_id", self, id,
           self_do_mb_query(self, "work", id, includes, EmptyDict))

get_url_by_id(self, id, includes) ==
    Lookup("get_url_by_id", self, id,
           self_do_mb_query(self, "url", id, includes, EmptyDict))

(* ------------------------------------------------------------------ *)
(* MusicBrainzWS: searches                                            *)
(* ------------------------------------------------------------------ *)
Search(op, self, out) ==
    /\ \E resp \in Responses : Return(op, self, NoArg, out, FALSE, now, resp)
    /\ UNCHANGED <<now, gate>>

\* search_annotations calls musicbrainz._do_mb_search directly: the client,
\* hostname and user-agent are the module-wide ones.
search_annotations(self, query, limit, offset, strict, fields) ==
    Search("search_annotations", self,
           do_mb_search("annotation", query, fields, limit, offset, strict,
                        module.client, module_hostname, module.useragent))

search_artists(self, query, limit, offset, strict, fields) ==
    Search("search_artists", self,
           self_do_mb_search(self, "artist", query, fields, limit, offset, strict))

search_labels(self, query, limit, offset, strict, fields) ==
    Search("search_labels", self,
           self_do_mb_search(self, "label", query, fields, limit, offset, strict))

search_recordings(self, query, limit, offset, strict, fields) ==
    Search("search_recordings", self,
           self_do_mb_search(self, "recording", query, fields, limit, offset, strict))

search_releases(self, query, limit, offset, strict, fields) ==
    Search("search_releases", self,
           self_do_mb_search(self, "release", query, fields, limit, offset, strict))

search_release_groups(self, query, limit, offset, strict, fields) ==
    Search("search_release_groups", self,
           self_do_mb_search(self, "release-group", query, fields, limit, offset, strict))

search_works(self, query, limit, offset, strict, fields) ==
    Search("search_works", self,
           self_do_mb_search(self, "work", query, fields, limit, offset, strict))

(* ------------------------------------------------------------------ *)
(* MusicBrainzWS: browsing                                            *)
(* ------------------------------------------------------------------ *)
\* The entries of params with a truthy value.
NonEmpty(params) ==
    [k \in {n \in DOMAIN params : TruthyStr(params[n])} |-> params[k][1]]

\* Mutant: the query is issued before the filters are checked.
browse_impl_query_first(self, entity, includes, valid_includes, limit, offset, params, release_status, release_type) ==
    IF ~check_includes_impl(includes, valid_includes) THEN Raised("ValidationError")
    ELSE IF Cardinality(DOMAIN NonEmpty(params)) > 1 THEN Raised("Exception")
    ELSE LET q == self_do_mb_query(self, entity, "", includes, NonEmpty(params))
             f == check_filter_and_make_params(entity, includes, release_status, release_type)
         IN  IF ~f.ok THEN [q EXCEPT !.result = "ValidationError"] ELSE q

\* What _browse_impl does: the include check, the check of the linking
\* parameters, the pagination, the filter check, and then the query.
browse_impl_outcome(self, entity, includes, valid_includes, limit, offset, params, release_status, release_type) ==
    IF ~check_includes_impl(includes, valid_includes) THEN Raised("ValidationError")
    ELSE IF Cardinality(DOMAIN NonEmpty(params)) > 1 THEN Raised("Exception")
    ELSE LET p0 == NonEmpty(params)
             p1 == IF TruthyInt(limit) THEN Update(p0, [k \in {"limit"} |-> limit[1]]) ELSE p0
             p2 == IF TruthyInt(offset) THEN Update(p1, [k \in {"offset"} |-> offset[1]]) ELSE p1
             f == check_filter_and_make_params(entity, includes, release_status, release_type)
         IN  IF ~f.ok THEN Raised("ValidationError")
             ELSE self_do_mb_query(self, entity, "", includes, Update(p2, f.params))

\* _browse_impl(self, entity, includes, valid_includes, limit, offset, params,
\* release_status=[], release_type=[])
_browse_impl(self, entity, includes, valid_includes, limit, offset, params, release_status, release_type) ==
    /\ \E resp \in Responses :
          Return("_browse_impl", self, [entity |-> entity],
                 browse_impl_outcome(self, entity, includes, valid_includes, limit, offset,
                                     params, release_status, release_type),
                 FALSE, now, resp)
    /\ UNCHANGED <<now, gate>>

\* What instance.browse_x(**kwargs) does for a method declared without self,
\* whose first parameter is `first`: the instance is bound to `first`, so a
\* keyword argument of that name is a second value for it (TypeError);
\* otherwise the body runs until it reads the name self, which it does not
\* have (NameError).
unbound_outcome(first, kwargs) ==
    IF first \in DOMAIN kwargs THEN Raised("TypeError") ELSE Raised("NameError")

Browse(op, self, first, kwargs) ==
    /\ Return(op, self, [kwargs |-> kwargs], unbound_outcome(first, kwargs), FALSE, now, "ok")
    /\ UNCHANGED <<now, gate>>

\* browse_artists(recording=None, release=None, release_group=None, ...)
browse_artists(self, kwargs) == Browse("browse_artists", self, "recording", kwargs)

\* browse_labels(release=None, ...)
browse_labels(self, kwargs) == Browse("browse_labels", self, "release", kwargs)

\* browse_recordings(artist=None, release=None, ...)
browse_recordings(self, kwargs) == Browse("browse_recordings", self, "artist", kwargs)

\* browse_releases(artist=None, label=None, recording=None, release_group=None, ...)
browse_releases(self, kwargs) == Browse("browse_releases", self, "artist", kwargs)

\* browse_release_groups(artist=None, release=None, ...)
browse_release_groups(self, kwargs) == Browse("browse_release_groups", self, "artist", kwargs)

\* browse_urls(resource=None, ...)
browse_urls(self, kwargs) == Browse("browse_urls", self, "resource", kwargs)

(* ------------------------------------------------------------------ *)
(* The environment: the clock and the module-wide configuration       *)
(* ------------------------------------------------------------------ *)
Tick ==
    /\ now < MaxTime
    /\ now' = now + 1
    /\ UNCHANGED <<ws, module, gate, requests, last>>

\* musicbrainz.auth(u, p): the module-wide credentials.
module_auth(u, p) ==
    /\ module' = [module EXCEPT !.user = u, !.password = p]
    /\ UNCHANGED <<ws, now, gate, requests, last>>

\* musicbrainz.set_useragent(app, version): the module-wide identity.
module_set_useragent(app, version) ==
    /\ TruthyStr(app) /\ TruthyStr(version)
    /\ module' = [module EXCEPT !.useragent = format_useragent(app, version, None),
                                !.client = format_client(app, version)]
    /\ UNCHANGED <<ws, now, gate, requests, last>>

(* ------------------------------------------------------------------ *)
(* Specifications                                                     *)
(* ------------------------------------------------------------------ *)
Init ==
    /\ ws = [i \in Instances |-> ClassDefaults]
    /\ module = [user |-> "", password |-> "", client |-> "", useragent |-> ""]
    /\ now = 0
    /\ gate = [i \in Instances |-> <<>>]
    /\ requests = <<>>
    /\ last = Call("init", "A", "ok", 0, NoArg)

\* The inputs of the calls.
Callers == {"A"}
Ids == {"id1"}
Paths == {"path1"}
PostArgs == {<<"body1">>, <<"path1", "body1">>}
LinkIds == {"x1"}

\* (includes, release_status, release_type): nothing, valid values, and one
\* invalid value in each place.
CheckedArgs ==
    { << <<>>, <<>>, <<>> >>,
      << <<"releases">>, <<"official">>, <<"album", "single">> >>,
      << <<"bogus">>, <<>>, <<>> >>,
      << <<>>, <<"bogus">>, <<>> >>,
      << <<>>, <<>>, <<"bogus">> >> }

IncludeArgs == {<<>>, <<"artists">>, <<"bogus">>}

\* (query, fields, strict, limit, offset)
SearchArgs ==
    { << "q", <<>>, FALSE, None, None >>,
      << "", << <<"name", "Bob">>, <<"type", "">> >>, FALSE, Some(5), None >>,
      << "q", << <<"name", "Bob">>, <<"country", "GB">> >>, TRUE, Some(5), Some(5) >> }

\* (limit, offset)
Pages == {<<None, None>>, <<Some(0), Some(0)>>, <<Some(5), Some(5)>>}

\* Keyword arguments: the linking parameters a caller gives, by name.
Kwargs(names) == UNION {[S -> LinkIds] : S \in {T \in SUBSET names : Cardinality(T) <= 2}}

\* A params dict as a browse method builds it: every linking parameter,
\* None or "" where the caller gave none.
ParamDicts(names) == [names -> {None, Some(""), Some("x1")}]

Auth == \E self \in Instances, u \in Users, p \in Passwords : auth(self, u, p)

SetUseragent ==
    \E self \in Instances, app \in Apps, version \in Versions, contact \in Contacts :
        set_useragent(self, app, version, contact)

SetHostname == \E self \in Instances, h \in Hostnames : set_hostname(self, h)

SetRateLimit ==
    \E self \in Instances, l \in LimitArgs, n \in RequestArgs : set_rate_limit(self, l, n)

NextConfig == Auth \/ SetUseragent \/ SetHostname \/ SetRateLimit

SpecConfig == Init /\ [][NextConfig]_vars

\* One instance in use.
CallerAuth == \E u \in Users, p \in Passwords : auth("A", u, p)

CallerSetUseragent == \E contact \in Contacts : set_useragent("A", Some("app"), Some("1"), contact)

CallerSetHostname == \E h \in Hostnames : set_hostname("A", h)

CallerSetRateLimit == \E l \in LimitArgs, n \in RequestArgs : set_rate_limit("A", l, n)

ModuleAuth == \E u \in Users, p \in Passwords : module_auth(u, p)

ModuleSetUseragent == module_set_useragent(Some("mod"), Some("1"))

Mutate ==
    \E self \in Callers :
        \/ \E path \in Paths : _do_mb_delete(self, path)
        \/ \E path \in Paths : _do_mb_put(self, path)
        \/ \E args \in PostArgs : _do_mb_post(self, args)

Get ==
    \E self \in Callers, id \in Ids :
        \/ \E a \in CheckedArgs :
              \/ get_artist_by_id(self, id, a[1], a[2], a[3])
              \/ get_label_by_id(self, id, a[1], a[2], a[3])
              \/ get_recording_by_id(self, id, a[1], a[2], a[3])
              \/ get_release_by_id(self, id, a[1], a[2], a[3])
              \/ get_release_group_by_id(self, id, a[1], a[2], a[3])
        \/ \E inc \in IncludeArgs :
              \/ get_work_by_id(self, id, inc)
              \/ get_url_by_id(self, id, inc)

\* The lookups with an id and nothing else.
GetPlain ==
    \E self \in Callers, id \in Ids :
        \/ get_artist_by_id(self, id, <<>>, <<>>, <<>>)
        \/ get_label_by_id(self, id, <<>>, <<>>, <<>>)
        \/ get_recording_by_id(self, id, <<>>, <<>>, <<>>)
        \/ get_release_by_id(self, id, <<>>, <<>>, <<>>)
        \/ get_release_group_by_id(self, id, <<>>, <<>>, <<>>)
        \/ get_work_by_id(self, id, <<>>)
        \/ get_url_by_id(self, id, <<>>)

SearchAny ==
    \E self \in Callers, a \in SearchArgs :
        \/ search_annotations(self, a[1], a[4], a[5], a[3], a[2])
        \/ search_artists(self, a[1], a[4], a[5], a[3], a[2])
        \/ search_labels(self, a[1], a[4], a[5], a[3], a[2])
        \/ search_recordings(self, a[1], a[4], a[5], a[3], a[2])
        \/ search_releases(self, a[1], a[4], a[5], a[3], a[2])
        \/ search_release_groups(self, a[1], a[4], a[5], a[3], a[2])
        \/ search_works(self, a[1], a[4], a[5], a[3], a[2])

BrowseAny ==
    \E self \in Callers :
        \/ \E kw \in Kwargs({"recording", "release", "release_group"}) : browse_artists(self, kw)
        \/ \E kw \in Kwargs({"release"}) : browse_labels(self, kw)
        \/ \E kw \in Kwargs({"artist", "release"}) : browse_recordings(self, kw)
        \/ \E kw \in Kwargs({"artist", "label", "recording", "release_group"}) : browse_releases(self, kw)
        \/ \E kw \in Kwargs({"artist", "release"}) : browse_release_groups(self, kw)
        \/ \E kw \in Kwargs({"resource"}) : browse_urls(self, kw)

BrowseImpl ==
    \E self \in Callers, a \in CheckedArgs, pg \in Pages :
        \/ \E params \in ParamDicts({"recording", "release"}) :
              _browse_impl(self, "artist", a[1], VALID_BROWSE_INCLUDES("artists"), pg[1], pg[2], params, a[2], a[3])
        \/ \E params \in ParamDicts({"artist", "label"}) :
              _browse_impl(self, "release", a[1], VALID_BROWSE_INCLUDES("releases"), pg[1], pg[2], params, a[2], a[3])

\* Every kind of request of one instance, configured through its setters and
\* through the module.
Next ==
    \/ CallerAuth \/ CallerSetUseragent \/ CallerSetHostname
    \/ ModuleAuth \/ ModuleSetUseragent
    \/ Mutate \/ GetPlain \/ SearchAny

Spec == Init /\ [][Next]_vars

\* The requests of one instance against the clock, under its rate-limit settings.
NextRate ==
    \/ CallerSetRateLimit \/ CallerSetUseragent
    \/ ModuleAuth \/ ModuleSetUseragent
    \/ Mutate \/ GetPlain
    \/ Tick

SpecRate == Init /\ [][NextRate]_vars

\* The calls that validate their parameters, with valid and invalid arguments.
NextBrowse ==
    \/ CallerSetUseragent \/ ModuleSetUseragent
    \/ Get \/ BrowseAny \/ BrowseImpl

SpecBrowse == Init /\ [][NextBrowse]_vars

(* ------------------------------------------------------------------ *)
(* Properties                                                         *)
(* ------------------------------------------------------------------ *)
\* The errors that reject the parameters of a call: the validators'
\* ValidationError and the Exception _browse_impl raises.
ValidationErrors == {"ValidationError", "Exception"}

BrowseOps ==
    {"browse_artists", "browse_labels", "browse_recordings", "browse_releases",
     "browse_release_groups", "browse_urls"}

AuthOps == {"_do_mb_delete", "_do_mb_put", "_do_mb_post"}

\* The values of a dict.
Values(d) == {d[k] : k \in DOMAIN d}

\* C1: a public browse call with more than one non-empty linking keyword
\* fails with a validation error and sends nothing; with exactly one, on a
\* configured instance, it sends exactly one query carrying that parameter.
C1_BrowseLinking ==
    last.op \in BrowseOps =>
        LET n == Cardinality(DOMAIN last.arg.kwargs)
        IN  /\ n > 1 => last.result \in ValidationErrors /\ last.sent = 0
            /\ (n = 1 /\ ws[last.self].useragent /= "" /\ module.useragent /= "") =>
                  /\ last.sent = 1
                  /\ Values(last.arg.kwargs) \subseteq Values(last.req.args)

\* C2: after set_rate_limit(False) the instance's do_rate_limit flag is False.
C2_DisableRateLimit ==
    (/\ last.op = "set_rate_limit"
     /\ last.arg.limit_or_interval = Bool(FALSE)
     /\ last.result = "ok")
        => ws[last.self].do_rate_limit = FALSE

\* The settings of every instance are positive.
PositiveLimits ==
    \A i \in Instances : ws[i].limit_interval > 0 /\ ws[i].limit_requests > 0

\* C3 as stated: a set_rate_limit call with a non-boolean interval <= 0, or
\* with a quota <= 0, fails with ValueError.
C3_RejectsAsStated ==
    (/\ last.op = "set_rate_limit"
     /\ \/ (last.arg.limit_or_interval.kind = "num" /\ last.arg.limit_or_interval.n <= 0)
        \/ last.arg.new_requests <= 0)
        => last.result = "ValueError"

\* C3, amended: a set_rate_limit call with a non-boolean interval, and with
\* that interval <= 0 or a quota <= 0, fails with ValueError and leaves the
\* settings of every instance as they were; the interval and the quota of
\* every instance are positive in every state.
C3_SetRateLimitRejects ==
    /\ []PositiveLimits
    /\ [][(/\ last'.op = "set_rate_limit"
           /\ last'.arg.limit_or_interval.kind = "num"
           /\ (last'.arg.limit_or_interval.n <= 0 \/ last'.arg.new_requests <= 0))
             => (last'.result = "ValueError" /\ ws' = ws)]_vars

\* C3 witness: a call with a valid interval and an invalid quota failed, and
\* the interval it was given is not the instance's.
C3_Witness ==
    /\ last.op = "set_rate_limit"
    /\ last.arg.limit_or_interval.kind = "num"
    /\ last.arg.limit_or_interval.n > 0
    /\ last.arg.new_requests <= 0
    /\ last.result = "ValueError"
    /\ ws[last.self].limit_interval /= last.arg.limit_or_interval.n

\* C4: every request that reached the network passed the gate of the
\* instance that sent it.
C4_EveryRequestGated == \A k \in DOMAIN requests : requests[k].gated

\* The requests of the same instance, under the same settings, that started
\* in the window of length limit_interval ending at the start of request k.
WindowOf(k) ==
    {j \in DOMAIN requests :
        /\ requests[j].self = requests[k].self
        /\ requests[j].limit_interval = requests[k].limit_interval
        /\ requests[j].limit_requests = requests[k].limit_requests
        /\ requests[j].do_rate_limit
        /\ requests[j].start > requests[k].start - requests[k].limit_interval
        /\ requests[j].start <= requests[k].start}

\* C5: with rate limiting enabled, at most limit_requests requests of an
\* instance start within any window of length limit_interval.
C5_QuotaPerWindow ==
    \A k \in DOMAIN requests :
        requests[k].do_rate_limit => Cardinality(WindowOf(k)) <= requests[k].limit_requests

\* C6: a PUT, DELETE or POST passthrough called on an instance whose
\* credentials were never set fails with a configuration error and sends no
\* request.
C6_AuthRequired ==
    (/\ last.op \in AuthOps
     /\ ws[last.self].user = ""
     /\ ws[last.self].password = "")
        => last.result = "ConfigurationError" /\ last.sent = 0

\* The instance holds both its user-agent and its client name, or neither.
ConfiguredTogether ==
    \A i \in Instances : ws[i].client = "" <=> ws[i].useragent = ""

\* C7: set_useragent with an empty or missing app or version fails with
\* ValueError, sends nothing and leaves every instance as it was; a successful
\* call leaves the instance with a user-agent and a client name; and in every
\* state an instance has both or neither.
C7_SetUseragent ==
    /\ []ConfiguredTogether
    /\ [][(last'.op = "set_useragent"
            /\ (~TruthyStr(last'.arg.app) \/ ~TruthyStr(last'.arg.version)))
             => (last'.result = "ValueError" /\ ws' = ws /\ requests' = requests)]_vars
    /\ [][(last'.op = "set_useragent"
            /\ TruthyStr(last'.arg.app) /\ TruthyStr(last'.arg.version))
             => (/\ last'.result = "ok"
                 /\ ws'[last'.self].useragent /= ""
                 /\ ws'[last'.self].client /= "")]_vars

\* C7 witness: a call with an empty app or version failed on an instance
\* that an earlier call had configured.
C7_Witness ==
    /\ last.op = "set_useragent"
    /\ last.result = "ValueError"
    /\ ws[last.self].client /= ""
    /\ ws[last.self].useragent /= ""

\* C8: after set_hostname, set_useragent and auth on an instance, a request
\* of that instance is addressed to its hostname and carries its user-agent
\* and client name and, when it requires authentication, its credentials.
C8_RequestCarriesConfiguration ==
    (/\ last.sent = 1
     /\ ws[last.self].hostname \in Hostnames
     /\ ws[last.self].useragent /= ""
     /\ ws[last.self].user /= "") =>
        /\ last.req.hostname = ws[last.self].hostname
        /\ last.req.useragent = ws[last.self].useragent
        /\ last.req.client = ws[last.self].client
        /\ last.req.auth_required =>
              /\ last.req.user = ws[last.self].user
              /\ last.req.password = ws[last.self].password

Fields ==
    {"user", "password", "hostname", "client", "useragent",
     "limit_interval", "limit_requests", "do_rate_limit"}

\* The fields a setter may change.
OwnFields(op) ==
    CASE op = "auth" -> {"user", "password"}
      [] op = "set_hostname" -> {"hostname"}
      [] op = "set_useragent" -> {"useragent", "client"}
      [] op = "set_rate_limit" -> {"limit_interval", "limit_requests", "do_rate_limit"}
      [] OTHER -> {}

\* C9: a setter call changes nothing of any other instance, and of its own
\* instance only its own fields.
C9_Independent ==
    [][\A i \in Instances :
          /\ i /= last'.self => ws'[i] = ws[i]
          /\ \A f \in Fields \ OwnFields(last'.op) : ws'[i][f] = ws[i][f]]_vars

\* C9 witness: two instances configured differently in every kind of field,
\* the last call a setter of the second.
C9_Witness ==
    /\ ws["A"].hostname /= ws["B"].hostname
    /\ ws["A"].user /= ws["B"].user
    /\ ws["A"].useragent /= "" /\ ws["B"].useragent /= ""
    /\ ws["A"].useragent /= ws["B"].useragent
    /\ ws["A"].limit_interval /= ws["B"].limit_interval
    /\ last.self = "B"
    /\ last.op = "set_rate_limit" /\ last.result = "ok"

\* The requests that passed the gate of their instance respect its quota.
GatedQuotaPerWindow ==
    \A k \in DOMAIN requests :
        (requests[k].gated /\ requests[k].do_rate_limit) =>
            Cardinality({j \in WindowOf(k) : requests[j].gated}) <= requests[k].limit_requests

\* C10: a call that ends in a validation error has sent no request: it
\* carries none and the request log is as it was before the call.
C10_ValidationBeforeIO ==
    /\ [](last.result \in ValidationErrors => last.sent = 0 /\ last.req = NoReq)
    /\ [][last'.result \in ValidationErrors => requests' = requests]_vars

\* C10 witness: a _browse_impl call was rejected for its filters, with valid
\* includes and one linking parameter, where a request had gone out before.
C10_Witness ==
    /\ last.op = "_browse_impl"
    /\ last.result = "ValidationError"
    /\ module.useragent /= ""
    /\ Len(requests) > 0

====
